---- MODULE Spec2Model ----
(***************************************************************************)
(* Two-step authentication flow of entryForm: the mock Authentication      *)
(* Service (MSW handlers and their tempTokenStore), the Authentication     *)
(* Client (api/auth.ts over axios) and the Flow Controller (LoginPage with *)
(* its AuthForm and TwoFactorForm).                                        *)
(*                                                                         *)
(* Strings of the program are strings here.  A temp token, the template    *)
(* string `temp-token-${Date.now()}`, is the tuple <<"temp-token-", ms>>;  *)
(* the empty string in a temp-token position is << >>.  An optional        *)
(* property that is absent is a record field that is absent.               *)
(* Time is the millisecond clock read by Date.now(); it advances from one  *)
(* timer to the next (handler delays, the axios deadline).                 *)
(***************************************************************************)
EXTENDS Integers, Sequences, FiniteSets, TLC

\* ------------------------------------------------------------------ bounds
MaxRequests == 3
MaxClock == 33000

\* --------------------------------------------------------------- constants
TEST_USERS ==
  [ valid        |-> [email |-> "test@example.com", password |-> "password123"],
    notFound     |-> [email |-> "notfound@example.com"],
    serverError  |-> [email |-> "error@example.com"],
    slowResponse |-> [email |-> "slow@example.com", password |-> "password123"],
    timeout      |-> [email |-> "timeout@example.com"],
    offline      |-> [email |-> "offline@example.com"] ]

TEST_2FA_CODES == [valid |-> "123456", expired |-> "000000", timeout |-> "999999"]

AxiosTimeout == 10000
SlowDelay == 3000
TimeoutDelay == 30000
ErrorDelay == 500
SuccessDelay == 800

SlowUserId == 2
ValidUserId == 1

\* ------------------------------------------------------------------ inputs
Emails ==
  { "slow@example.com", "timeout@example.com", "offline@example.com",
    "error@example.com", "notfound@example.com", "test@example.com",
    "other@example.com" }

Passwords == {"password123", "wrongpassword"}

Codes == {"123456", "000000", "999999", "111111"}

\* What the user may type into the email and password fields: the above and
\* the empty field, an email without a dot after the @, one with a blank.
TypedEmails == Emails \cup {"", "test@example", "te st@example.com"}

TypedPasswords == Passwords \cup {""}

\* What the user may type or paste into the code fields.
TypedCodes == Codes \cup {"", "12345", "12a456", "1234567"}

\* The accounts a login can succeed with.
LoginEmails == {"slow@example.com", "test@example.com"}

FC == "fc"
Callers == {"api"}
Clients == {FC} \cup Callers

UnknownToken == <<"unknown-token">>
EmptyTempToken == << >>
null == [null |-> TRUE]

VARIABLES
  now,                  \* Date.now()
  tempTokenStore,       \* Map<string, {email, createdAt}> of the handlers
  handlers,             \* handler invocations sleeping in `await delay(..)`
  mutation,             \* per client: state of its login / verify2FA call
  twoFactorState,       \* LoginPage state
  isFullyAuthenticated, \* LoginPage state
  localStorage,         \* browser storage written by saveToken
  requests,             \* number of requests sent with apiClient.post
  mocking               \* whether the MSW worker with `handlers` serves /api

vars == <<now, tempTokenStore, handlers, mutation, twoFactorState,
          isFullyAuthenticated, localStorage, requests, mocking>>

\* ------------------------------------------------------- the session store
StoreHas(store, token) == token \in DOMAIN store

StoreSet(store, token, value) ==
  [k \in DOMAIN store \cup {token} |-> IF k = token THEN value ELSE store[k]]

StoreDelete(store, token) ==
  [k \in DOMAIN store \ {token} |-> store[k]]

TempToken(ms) == <<"temp-token-", ms>>

\* Mutant: the slow email is checked together with its password.
loginBranchSlowPassword(email, password) ==
  IF email = TEST_USERS.slowResponse.email
       /\ password = TEST_USERS.slowResponse.password THEN "slow"
  ELSE IF email = TEST_USERS.timeout.email THEN "timeout"
  ELSE IF email = TEST_USERS.offline.email THEN "offline"
  ELSE IF email = TEST_USERS.serverError.email THEN "serverError"
  ELSE IF email = TEST_USERS.notFound.email THEN "notFound"
  ELSE IF email = TEST_USERS.valid.email /\ password # TEST_USERS.valid.password
    THEN "invalidCredentials"
  ELSE IF email = TEST_USERS.valid.email /\ password = TEST_USERS.valid.password
    THEN "success"
  ELSE "default"

\* ------------------------------------------------- service: login handler
\* The branch the if-chain of the login handler takes.
loginBranch(email, password) ==
  IF email = TEST_USERS.slowResponse.email THEN "slow"
  ELSE IF email = TEST_USERS.timeout.email THEN "timeout"
  ELSE IF email = TEST_USERS.offline.email THEN "offline"
  ELSE IF email = TEST_USERS.serverError.email THEN "serverError"
  ELSE IF email = TEST_USERS.notFound.email THEN "notFound"
  ELSE IF email = TEST_USERS.valid.email /\ password # TEST_USERS.valid.password
    THEN "invalidCredentials"
  ELSE IF email = TEST_USERS.valid.email /\ password = TEST_USERS.valid.password
    THEN "success"
  ELSE "default"

\* The `await delay(..)` of each branch; the offline branch has none.
loginDelay(branch) ==
  CASE branch = "slow" -> SlowDelay
    [] branch = "timeout" -> TimeoutDelay
    [] branch = "offline" -> 0
    [] branch = "success" -> SuccessDelay
    [] OTHER -> ErrorDelay

ApiErrorBody(error, message) == [error |-> error, message |-> message]

JsonReply(status, body) == [type |-> "json", status |-> status, body |-> body]

NetworkErrorReply == [type |-> "error"]

LoginSuccessBody(id, email, tempToken) ==
  [ token |-> "",
    user |-> [id |-> id, email |-> email],
    requires2FA |-> TRUE,
    tempToken |-> tempToken ]

\* What the login handler returns once its delay is over, at clock `ms`.
loginReply(h, ms) ==
  CASE h.branch = "slow" ->
         JsonReply(200, LoginSuccessBody(SlowUserId, h.email, TempToken(ms)))
    [] h.branch = "timeout" ->
         JsonReply(200, [message |-> "This should timeout"])
    [] h.branch = "offline" -> NetworkErrorReply
    [] h.branch = "serverError" ->
         JsonReply(500, ApiErrorBody("server_error", "Something went wrong"))
    [] h.branch = "notFound" ->
         JsonReply(404, ApiErrorBody("user_not_found", "User does not exist"))
    [] h.branch = "invalidCredentials" ->
         JsonReply(401, ApiErrorBody("invalid_credentials",
                                     "Email or password is incorrect"))
    [] h.branch = "success" ->
         JsonReply(200, LoginSuccessBody(ValidUserId, h.email, TempToken(ms)))
    [] h.branch = "default" ->
         JsonReply(404, ApiErrorBody("user_not_found", "User does not exist"))

\* Mutant: the wrong-password branch records a PendingSession too.
loginStoreOnWrongPassword(h, store, ms) ==
  IF h.branch \in {"slow", "success", "invalidCredentials"}
    THEN StoreSet(store, TempToken(ms), [email |-> h.email, createdAt |-> ms])
    ELSE store

\* Mutant: the login handler forgets `tempTokenStore.set(..)`.
loginStoreSkips(h, store, ms) == store

\* The store after the login handler has run its part after the delay.
loginStore(h, store, ms) ==
  IF h.branch \in {"slow", "success"}
    THEN StoreSet(store, TempToken(ms), [email |-> h.email, createdAt |-> ms])
    ELSE store

\* Mutant: the code is checked before the token is looked up.
verifyBranchCodeFirst(store, tempToken, code) ==
  IF code = TEST_2FA_CODES.timeout THEN "timeout"
  ELSE IF code = TEST_2FA_CODES.expired THEN "expired"
  ELSE IF code # TEST_2FA_CODES.valid THEN "invalid"
  ELSE IF ~StoreHas(store, tempToken) THEN "noToken"
  ELSE "success"

\* --------------------------------------------- service: verify-2fa handler
\* The branch the verify-2fa handler takes; the token is looked up before
\* the delay.
verifyBranch(store, tempToken, code) ==
  IF code = TEST_2FA_CODES.timeout THEN "timeout"
  ELSE IF ~StoreHas(store, tempToken) THEN "noToken"
  ELSE IF code = TEST_2FA_CODES.expired THEN "expired"
  ELSE IF code # TEST_2FA_CODES.valid THEN "invalid"
  ELSE "success"

verifyDelay(branch) ==
  CASE branch = "timeout" -> TimeoutDelay
    [] branch = "success" -> SuccessDelay
    [] OTHER -> ErrorDelay

\* Mutant: the verified user is the fixed valid user, not the one of the
\* PendingSession.
verifyReplyFixedUser(h) ==
  IF h.branch = "success"
    THEN JsonReply(200, [ token |-> "fake-jwt-token-after-2fa",
                          user |-> [id |-> ValidUserId,
                                    email |-> TEST_USERS.valid.email] ])
    ELSE JsonReply(401, ApiErrorBody("2fa_expired",
                     "2FA session has expired. Please login again."))

verifyReply(h) ==
  CASE h.branch = "timeout" ->
         JsonReply(200, [message |-> "This should timeout"])
    [] h.branch = "noToken" ->
         JsonReply(401, ApiErrorBody("2fa_expired",
                     "2FA session has expired. Please login again."))
    [] h.branch = "expired" ->
         JsonReply(401, ApiErrorBody("2fa_expired",
                     "2FA code has expired. Please request a new code."))
    [] h.branch = "invalid" ->
         JsonReply(401, ApiErrorBody("invalid_2fa_code",
                     "Invalid verification code. Please try again."))
    [] h.branch = "success" ->
         JsonReply(200, [ token |-> "fake-jwt-token-after-2fa",
                          user |-> [id |-> ValidUserId,
                                    email |-> h.tokenData.email] ])

\* Mutant: the invalid-code branch deletes the PendingSession too.
verifyStoreDropsOnInvalid(h, store) ==
  IF h.branch \in {"success", "invalid"} THEN StoreDelete(store, h.tempToken)
  ELSE store

\* Mutant: the expired-code branch deletes the PendingSession too.
verifyStoreDropsOnExpired(h, store) ==
  IF h.branch \in {"success", "expired"} THEN StoreDelete(store, h.tempToken)
  ELSE store

\* Mutant: the successful branch forgets `tempTokenStore.delete(tempToken)`.
verifyStoreKeeps(h, store) == store

verifyStore(h, store) ==
  IF h.branch = "success" THEN StoreDelete(store, h.tempToken) ELSE store

\* ------------------------------------------------------------------- axios
\* What apiClient.post settles with for a reply of the service: a 2xx reply
\* resolves, any other status rejects with an AxiosError carrying the
\* response, a network error rejects with an AxiosError without response.
axiosSettle(reply) ==
  IF reply.type = "error"
    THEN [ resolved |-> FALSE,
           error |-> [isAxiosError |-> TRUE, code |-> "ERR_NETWORK"] ]
  ELSE IF reply.status >= 200 /\ reply.status < 300
    THEN [ resolved |-> TRUE,
           response |-> [status |-> reply.status, data |-> reply.body] ]
  ELSE [ resolved |-> FALSE,
         error |-> [ isAxiosError |-> TRUE,
                     code |-> IF reply.status >= 500 THEN "ERR_BAD_RESPONSE"
                                                     ELSE "ERR_BAD_REQUEST",
                     response |-> [status |-> reply.status,
                                   data |-> reply.body] ] ]

\* The rejection of a request whose `timeout: 10000` has expired.
axiosTimeout ==
  [ resolved |-> FALSE,
    error |-> [isAxiosError |-> TRUE, code |-> "ECONNABORTED"] ]

\* ------------------------------------------------------------- api/auth.ts
ThrownError(status, error, message) ==
  [status |-> status, data |-> [error |-> error, message |-> message]]

\* Mutant: the deadline abort is not told from other transport failures.
loginCatchNoDeadline(error) ==
  IF error.isAxiosError
    THEN IF "response" \notin DOMAIN error
           THEN ThrownError(0, "network_error", "Network error occurred")
           ELSE [status |-> error.response.status, data |-> error.response.data]
    ELSE ThrownError(0, "unknown_error", "An unexpected error occurred")

\* The catch block of `login`: the value it throws for a caught error.
loginCatch(error) ==
  IF error.isAxiosError
    THEN IF "response" \notin DOMAIN error
           THEN IF "code" \in DOMAIN error /\ error.code = "ECONNABORTED"
                  THEN ThrownError(0, "timeout_error", "Request timed out")
                  ELSE ThrownError(0, "network_error", "Network error occurred")
           ELSE [status |-> error.response.status, data |-> error.response.data]
    ELSE ThrownError(0, "unknown_error", "An unexpected error occurred")

\* Mutant: the status of the response is dropped.
verify2FACatchNoStatus(error) ==
  IF error.isAxiosError
    THEN IF "response" \notin DOMAIN error
           THEN IF "code" \in DOMAIN error /\ error.code = "ECONNABORTED"
                  THEN ThrownError(0, "timeout_error", "Request timed out")
                  ELSE ThrownError(0, "network_error", "Network error occurred")
           ELSE [status |-> 0, data |-> error.response.data]
    ELSE ThrownError(0, "unknown_error", "An unexpected error occurred")

\* The catch block of `verify2FA`.
verify2FACatch(error) ==
  IF error.isAxiosError
    THEN IF "response" \notin DOMAIN error
           THEN IF "code" \in DOMAIN error /\ error.code = "ECONNABORTED"
                  THEN ThrownError(0, "timeout_error", "Request timed out")
                  ELSE ThrownError(0, "network_error", "Network error occurred")
           ELSE [status |-> error.response.status, data |-> error.response.data]
    ELSE ThrownError(0, "unknown_error", "An unexpected error occurred")

\* `login` / `verify2FA`: the promise result for what apiClient.post settled
\* with.
login(settled) ==
  IF settled.resolved
    THEN [ok |-> TRUE, data |-> settled.response.data]
    ELSE [ok |-> FALSE, error |-> loginCatch(settled.error)]

verify2FA(settled) ==
  IF settled.resolved
    THEN [ok |-> TRUE, data |-> settled.response.data]
    ELSE [ok |-> FALSE, error |-> verify2FACatch(settled.error)]

apiCall(fn, settled) ==
  IF fn = "login" THEN login(settled) ELSE verify2FA(settled)

\* `data.token` as localStorage.setItem stores it: a missing field reads as
\* undefined, which setItem turns into the string "undefined".
tokenOf(data) ==
  IF "token" \in DOMAIN data THEN data.token ELSE "undefined"

saveToken(storage, token) ==
  [k \in DOMAIN storage \cup {"auth_token"} |->
     IF k = "auth_token" THEN token ELSE storage[k]]

\* `!!getToken()`: the item exists and is not the empty string.
isAuthenticated(storage) ==
  /\ "auth_token" \in DOMAIN storage
  /\ storage["auth_token"] # ""

\* ---------------------------------------------------------- mutation state
IdleMutation == [status |-> "idle"]

PendingMutation(variables, ms) ==
  [status |-> "pending", variables |-> variables, submittedAt |-> ms]

\* The state a mutation settles in for the result of its mutationFn.
SettledMutation(m, result) ==
  IF result.ok
    THEN [status |-> "success", variables |-> m.variables, data |-> result.data]
    ELSE [status |-> "error", variables |-> m.variables, error |-> result.error]

isPending(c) == mutation[c].status = "pending"

\* ----------------------------------------------------------- LoginPage
\* The screen LoginPage renders.
Screen ==
  IF isFullyAuthenticated THEN "Authenticated"
  ELSE IF twoFactorState # null THEN "AwaitingCode"
  ELSE "AwaitingCredentials"

\* `response.requires2FA && response.tempToken`
needsTwoFactor(response) ==
  /\ "requires2FA" \in DOMAIN response
  /\ response.requires2FA
  /\ "tempToken" \in DOMAIN response
  /\ response.tempToken # EmptyTempToken

\* `setTwoFactorState` / `setIsFullyAuthenticated` of handleLoginSuccess.
handleLoginSuccess(response) ==
  IF needsTwoFactor(response)
    THEN /\ twoFactorState' = [ tempToken |-> response.tempToken,
                                userEmail |-> response.user.email ]
         /\ UNCHANGED isFullyAuthenticated
    ELSE /\ isFullyAuthenticated' = TRUE
         /\ UNCHANGED twoFactorState

\* Mutant: the page does not record the verified session.
handle2FASuccessForgets(response) ==
  UNCHANGED <<isFullyAuthenticated, twoFactorState>>

handle2FASuccess(response) ==
  /\ isFullyAuthenticated' = TRUE
  /\ UNCHANGED twoFactorState

\* Mutant: a failure sends the page back to the login form.
FormSettleResets(result) ==
  IF result.ok
    THEN /\ localStorage' = saveToken(localStorage, tokenOf(result.data))
         /\ IF mutation[FC].variables.fn = "login"
              THEN handleLoginSuccess(result.data)
              ELSE handle2FASuccess(result.data)
         /\ mutation' = [mutation EXCEPT ![FC] = IdleMutation]
    ELSE /\ mutation' = [mutation EXCEPT ![FC] = SettledMutation(@, result)]
         /\ twoFactorState' = null
         /\ UNCHANGED <<localStorage, isFullyAuthenticated>>

\* The mutation of the form LoginPage shows settles.  onSuccess saves the
\* token and calls the LoginPage callback; the page then shows another form,
\* whose mutation is new.  A failure only sets the error of the mutation.
FormSettle(result) ==
  IF result.ok
    THEN /\ localStorage' = saveToken(localStorage, tokenOf(result.data))
         /\ IF mutation[FC].variables.fn = "login"
              THEN handleLoginSuccess(result.data)
              ELSE handle2FASuccess(result.data)
         /\ mutation' = [mutation EXCEPT ![FC] = IdleMutation]
    ELSE /\ mutation' = [mutation EXCEPT ![FC] = SettledMutation(@, result)]
         /\ UNCHANGED <<localStorage, twoFactorState, isFullyAuthenticated>>

\* What a mutation state says of the call itself.
ResultOf(m) ==
  [f \in DOMAIN m \ {"previous", "submittedAt"} |-> m[f]]

\* A direct caller of `login` / `verify2FA` awaits its call and keeps the
\* result, and beside it the result of the call it made before.
CallerPending(m, variables, ms) ==
  [ status |-> "pending", variables |-> variables, submittedAt |-> ms,
    previous |-> ResultOf(m) ]

CallerSettled(m, result) ==
  IF result.ok
    THEN [ status |-> "success", variables |-> m.variables,
           data |-> result.data, previous |-> m.previous ]
    ELSE [ status |-> "error", variables |-> m.variables,
           error |-> result.error, previous |-> m.previous ]

CallerSettle(c, result) ==
  /\ mutation' = [mutation EXCEPT ![c] = CallerSettled(@, result)]
  /\ UNCHANGED <<localStorage, twoFactorState, isFullyAuthenticated>>

ClientSettle(c, settled) ==
  LET result == apiCall(mutation[c].variables.fn, settled)
  IN  IF c = FC THEN FormSettle(result) ELSE CallerSettle(c, result)

\* --------------------------------------------------------- error messages
\* `data.error` and `data.message || ..` for a body that may lack the field.
errorOf(data) == IF "error" \in DOMAIN data THEN data.error ELSE ""

messageOr(data, fallback) ==
  IF "message" \in DOMAIN data /\ data.message # "" THEN data.message
  ELSE fallback

\* The status 0 part that both getErrorMessage functions share.
getErrorMessageStatus0(data) ==
  IF errorOf(data) = "timeout_error" THEN "Request timed out. Please try again."
  ELSE IF errorOf(data) = "network_error"
    THEN "Connection problem. Please check your network."
  ELSE "An unexpected error occurred. Please try again."

\* getErrorMessage of AuthForm: HTTP errors by status.
getErrorMessageAuthForm(error) ==
  IF error.status = 0 THEN getErrorMessageStatus0(error.data)
  ELSE IF error.status = 401 THEN "Incorrect email or password."
  ELSE IF error.status = 404 THEN "User not found."
  ELSE IF error.status = 500 THEN "Server error. Please try again later."
  ELSE messageOr(error.data, "An unexpected error occurred.")

\* Mutant: the code form maps HTTP errors by status, as the login form does.
getErrorMessageByStatus(error) == getErrorMessageAuthForm(error)

\* getErrorMessage of TwoFactorForm: HTTP errors by error code.
getErrorMessageTwoFactorForm(error) ==
  IF error.status = 0 THEN getErrorMessageStatus0(error.data)
  ELSE IF errorOf(error.data) = "invalid_2fa_code"
    THEN "Invalid verification code. Please try again."
  ELSE IF errorOf(error.data) = "2fa_expired"
    THEN "Verification session expired. Please login again."
  ELSE messageOr(error.data, "An unexpected error occurred.")

\* `apiError` of the form that is shown.
apiError ==
  IF mutation[FC].status # "error" THEN ""
  ELSE IF mutation[FC].variables.fn = "login"
    THEN getErrorMessageAuthForm(mutation[FC].error)
  ELSE getErrorMessageTwoFactorForm(mutation[FC].error)

\* ------------------------------------------------------------- the service
\* The handler invocation a request starts: everything the handler does
\* before its `await delay(..)`.
NewHandler(c, req) ==
  IF req.fn = "login"
    THEN LET b == loginBranch(req.email, req.password)
         IN  [ client |-> c, fn |-> "login", branch |-> b,
               due |-> now + loginDelay(b), email |-> req.email, live |-> TRUE ]
    ELSE LET b == verifyBranch(tempTokenStore, req.tempToken, req.code)
         IN  [ client |-> c, fn |-> "verify2FA", branch |-> b,
               due |-> now + verifyDelay(b), tempToken |-> req.tempToken,
               tokenData |-> IF StoreHas(tempTokenStore, req.tempToken)
                               THEN tempTokenStore[req.tempToken] ELSE null,
               live |-> TRUE ]

\* apiClient.post: the request is sent; with the mock service in place it
\* reaches its handler.
Send(c, req) ==
  /\ ~isPending(c)
  /\ requests < MaxRequests
  /\ IF mocking
       THEN /\ NewHandler(c, req).due <= MaxClock
            /\ handlers' = handlers \cup {NewHandler(c, req)}
       ELSE UNCHANGED handlers
  /\ mutation' = [mutation EXCEPT ![c] =
       IF c = FC THEN PendingMutation(req, now) ELSE CallerPending(@, req, now)]
  /\ requests' = requests + 1
  /\ UNCHANGED <<now, tempTokenStore, twoFactorState, isFullyAuthenticated,
                 localStorage, mocking>>

LoginRequest(email, password) ==
  [fn |-> "login", email |-> email, password |-> password]

VerifyRequest(tempToken, code) ==
  [fn |-> "verify2FA", tempToken |-> tempToken, code |-> code]

\* ------------------------------------------------------------- form inputs
\* The characters of the strings that are typed into the forms.
Chars(s) ==
  CASE s = "slow@example.com" ->
         <<"s", "l", "o", "w", "@", "e", "x", "a", "m", "p", "l", "e", ".", "c", "o", "m">>
    [] s = "timeout@example.com" ->
         <<"t", "i", "m", "e", "o", "u", "t", "@", "e", "x", "a", "m", "p", "l", "e", ".", "c", "o", "m">>
    [] s = "offline@example.com" ->
         <<"o", "f", "f", "l", "i", "n", "e", "@", "e", "x", "a", "m", "p", "l", "e", ".", "c", "o", "m">>
    [] s = "error@example.com" ->
         <<"e", "r", "r", "o", "r", "@", "e", "x", "a", "m", "p", "l", "e", ".", "c", "o", "m">>
    [] s = "notfound@example.com" ->
         <<"n", "o", "t", "f", "o", "u", "n", "d", "@", "e", "x", "a", "m", "p", "l", "e", ".", "c", "o", "m">>
    [] s = "test@example.com" ->
         <<"t", "e", "s", "t", "@", "e", "x", "a", "m", "p", "l", "e", ".", "c", "o", "m">>
    [] s = "other@example.com" ->
         <<"o", "t", "h", "e", "r", "@", "e", "x", "a", "m", "p", "l", "e", ".", "c", "o", "m">>
    [] s = "password123" ->
         <<"p", "a", "s", "s", "w", "o", "r", "d", "1", "2", "3">>
    [] s = "wrongpassword" ->
         <<"w", "r", "o", "n", "g", "p", "a", "s", "s", "w", "o", "r", "d">>
    [] s = "123456" ->
         <<"1", "2", "3", "4", "5", "6">>
    [] s = "000000" ->
         <<"0", "0", "0", "0", "0", "0">>
    [] s = "999999" ->
         <<"9", "9", "9", "9", "9", "9">>
    [] s = "111111" ->
         <<"1", "1", "1", "1", "1", "1">>
    [] s = "" -> << >>
    [] s = "test@example" ->
         <<"t", "e", "s", "t", "@", "e", "x", "a", "m", "p", "l", "e">>
    [] s = "te st@example.com" ->
         <<"t", "e", " ", "s", "t", "@", "e", "x", "a", "m", "p", "l", "e", ".", "c", "o", "m">>
    [] s = "12345" -> <<"1", "2", "3", "4", "5">>
    [] s = "12456" -> <<"1", "2", "4", "5", "6">>
    [] s = "12a456" -> <<"1", "2", "a", "4", "5", "6">>
    [] s = "1234567" -> <<"1", "2", "3", "4", "5", "6", "7">>

Whitespace == {" ", "\t", "\n", "\r"}

\* Whether the characters cs match /^[^\s@]+@[^\s@]+\.[^\s@]+$/
MatchesEmailRegex(cs) ==
  LET n == Len(cs)
      plain(i, j) == /\ i <= j
                     /\ \A k \in i..j : cs[k] \notin Whitespace \cup {"@"}
  IN  \E a \in 1..n : \E d \in 1..n :
        /\ a < d
        /\ cs[a] = "@"
        /\ cs[d] = "."
        /\ plain(1, a - 1)
        /\ plain(a + 1, d - 1)
        /\ plain(d + 1, n)

\* The strings of the email field that match the regex (computed once).
EmailRegexMatches == {s \in TypedEmails : MatchesEmailRegex(Chars(s))}

\* EMAIL_REGEX.test(s)
EMAIL_REGEX_test(s) == s \in EmailRegexMatches

\* Mutant: the form is valid as soon as both fields are filled.
isFormValidNoRegex(email, password) ==
  /\ email # ""
  /\ password # ""

\* AuthForm: `email && EMAIL_REGEX.test(email) && password`
isFormValid(email, password) ==
  /\ email # ""
  /\ EMAIL_REGEX_test(email)
  /\ password # ""

\* /\d/
isDigit(ch) == ch \in {"0", "1", "2", "3", "4", "5", "6", "7", "8", "9"}

\* handlePaste / handleDigitChange: the code fields take the digits of what
\* is entered, six at most; `fullCode` is their join.
fullCodeOf(typed) ==
  LET digits == SelectSeq(Chars(typed), isDigit)
      kept == SubSeq(digits, 1, IF Len(digits) < 6 THEN Len(digits) ELSE 6)
  IN  CHOOSE s \in Codes \cup {"", "12345", "12456"} : Chars(s) = kept

\* The values `fullCode` can have (computed once).
FullCodes == {fullCodeOf(typed) : typed \in TypedCodes}

\* TwoFactorForm: `fullCode.length === 6`
isCodeComplete(fullCode) == Len(Chars(fullCode)) = 6

\* ----------------------------------------------------------------- actions
InitPage ==
  /\ now = 0
  /\ tempTokenStore = << >>
  /\ handlers = {}
  /\ mutation = [c \in Clients |-> IdleMutation]
  /\ twoFactorState = null
  /\ isFullyAuthenticated = FALSE
  /\ localStorage = << >>
  /\ requests = 0

\* The application as main.tsx starts it: the MSW worker is running.
Init ==
  /\ InitPage
  /\ mocking = TRUE

\* AuthForm.handleSubmit with the submit button enabled.
AuthFormSubmit(email, password) ==
  /\ Screen = "AwaitingCredentials"
  /\ isFormValid(email, password)
  /\ Send(FC, LoginRequest(email, password))

\* TwoFactorForm.handleSubmit with the submit button enabled.
TwoFactorSubmit(code) ==
  /\ Screen = "AwaitingCode"
  /\ isCodeComplete(code)
  /\ Send(FC, VerifyRequest(twoFactorState.tempToken, code))

\* Mutant: going back invalidates the PendingSession on the service.
BackToLoginInvalidates ==
  /\ Screen = "AwaitingCode"
  /\ ~isPending(FC)
  /\ twoFactorState' = null
  /\ tempTokenStore' = StoreDelete(tempTokenStore, twoFactorState.tempToken)
  /\ mutation' = [mutation EXCEPT ![FC] = IdleMutation]
  /\ UNCHANGED <<now, handlers, isFullyAuthenticated, localStorage, requests,
                 mocking>>

\* Mutant: the back button is not disabled while the verify is pending.
BackToLoginWhilePending ==
  /\ Screen = "AwaitingCode"
  /\ twoFactorState' = null
  /\ mutation' = [mutation EXCEPT ![FC] = IdleMutation]
  /\ UNCHANGED <<now, tempTokenStore, handlers, isFullyAuthenticated,
                 localStorage, requests, mocking>>

\* The back button of TwoFactorForm: handleBackToLogin.
BackToLogin ==
  /\ Screen = "AwaitingCode"
  /\ ~isPending(FC)
  /\ twoFactorState' = null
  /\ mutation' = [mutation EXCEPT ![FC] = IdleMutation]
  /\ UNCHANGED <<now, tempTokenStore, handlers, isFullyAuthenticated,
                 localStorage, requests, mocking>>

\* Mutant: signing out calls removeToken().
SignOutRemovesToken ==
  /\ Screen = "Authenticated"
  /\ isFullyAuthenticated' = FALSE
  /\ twoFactorState' = null
  /\ localStorage' = [k \in DOMAIN localStorage \ {"auth_token"} |-> localStorage[k]]
  /\ mutation' = [mutation EXCEPT ![FC] = IdleMutation]
  /\ UNCHANGED <<now, tempTokenStore, handlers, requests, mocking>>

\* The 'Sign out (demo)' button of the success screen.
SignOut ==
  /\ Screen = "Authenticated"
  /\ isFullyAuthenticated' = FALSE
  /\ twoFactorState' = null
  /\ mutation' = [mutation EXCEPT ![FC] = IdleMutation]
  /\ UNCHANGED <<now, tempTokenStore, handlers, localStorage, requests, mocking>>

\* The temp tokens a direct caller may present: one it has been given or has
\* presented before, one that is in the store, or one that never was.
TokensOf(c) ==
  LET m == mutation[c]
  IN  DOMAIN tempTokenStore \cup {UnknownToken}
        \cup (IF m.status # "idle" /\ m.variables.fn = "verify2FA"
                THEN {m.variables.tempToken} ELSE {})
        \cup (IF m.status = "success" /\ m.variables.fn = "login"
                   /\ "tempToken" \in DOMAIN m.data
                THEN {m.data.tempToken} ELSE {})

\* A direct call of `login`.
CallLogin(c, email, password) ==
  Send(c, LoginRequest(email, password))

\* A direct call of `verify2FA`.
CallVerify2FA(c, tempToken, code) ==
  /\ tempToken \in TokensOf(c)
  /\ Send(c, VerifyRequest(tempToken, code))

\* Mutant: a failed request is sent once more before the failure is
\* surfaced (`retry: 1`).
HandlerReturnRetries(h) ==
  /\ h \in handlers
  /\ h.due <= now
  /\ tempTokenStore' = IF h.fn = "login"
                         THEN loginStore(h, tempTokenStore, now)
                         ELSE verifyStore(h, tempTokenStore)
  /\ LET reply == IF h.fn = "login" THEN loginReply(h, now) ELSE verifyReply(h)
     IN  IF h.live /\ ~axiosSettle(reply).resolved
           THEN /\ handlers' = (handlers \ {h})
                       \cup {NewHandler(h.client, mutation[h.client].variables)}
                /\ UNCHANGED <<mutation, localStorage, twoFactorState,
                               isFullyAuthenticated>>
           ELSE /\ handlers' = handlers \ {h}
                /\ IF h.live
                     THEN ClientSettle(h.client, axiosSettle(reply))
                     ELSE UNCHANGED <<mutation, localStorage, twoFactorState,
                                      isFullyAuthenticated>>
  /\ UNCHANGED <<now, requests, mocking>>

\* A handler wakes from its delay, finishes and returns its response; the
\* client that still waits for it settles.
HandlerReturn(h) ==
  /\ h \in handlers
  /\ h.due <= now
  /\ handlers' = handlers \ {h}
  /\ tempTokenStore' = IF h.fn = "login"
                         THEN loginStore(h, tempTokenStore, now)
                         ELSE verifyStore(h, tempTokenStore)
  /\ LET reply == IF h.fn = "login" THEN loginReply(h, now) ELSE verifyReply(h)
     IN  IF h.live
           THEN ClientSettle(h.client, axiosSettle(reply))
           ELSE UNCHANGED <<mutation, localStorage, twoFactorState,
                            isFullyAuthenticated>>
  /\ UNCHANGED <<now, requests, mocking>>

\* Mutant: only login requests have a deadline.
RequestTimeoutLoginOnly(c) ==
  /\ isPending(c)
  /\ mutation[c].variables.fn = "login"
  /\ mutation[c].submittedAt + AxiosTimeout <= now
  /\ handlers' = {IF h.client = c /\ h.live THEN [h EXCEPT !.live = FALSE] ELSE h :
                    h \in handlers}
  /\ ClientSettle(c, axiosTimeout)
  /\ UNCHANGED <<now, tempTokenStore, requests, mocking>>

\* Mutant: the expired request is not aborted, its handler stays attached.
RequestTimeoutKeepsListening(c) ==
  /\ isPending(c)
  /\ mutation[c].submittedAt + AxiosTimeout <= now
  /\ ClientSettle(c, axiosTimeout)
  /\ UNCHANGED <<now, tempTokenStore, handlers, requests, mocking>>

\* The axios deadline of a pending request expires: the request is aborted
\* and its handler runs on without a client.
RequestTimeout(c) ==
  /\ isPending(c)
  /\ mutation[c].submittedAt + AxiosTimeout <= now
  /\ handlers' = {IF h.client = c /\ h.live THEN [h EXCEPT !.live = FALSE] ELSE h :
                    h \in handlers}
  /\ ClientSettle(c, axiosTimeout)
  /\ UNCHANGED <<now, tempTokenStore, requests, mocking>>

\* The timers that are set: handler delays and request deadlines.
Timers ==
  {h.due : h \in handlers}
    \cup {mutation[c].submittedAt + AxiosTimeout : c \in {k \in Clients : isPending(k)}}

\* Time passes, up to the next timer: to that timer, or to an instant at
\* which a login sent then would read the same Date.now() for its token as a
\* login that is sleeping now.
Advance(t) ==
  /\ now < t
  /\ t <= MaxClock
  /\ \A d \in Timers : t <= d
  /\ now' = t
  /\ UNCHANGED <<tempTokenStore, handlers, mutation, twoFactorState,
                 isFullyAuthenticated, localStorage, requests, mocking>>

AdvanceTargets ==
  Timers \cup {h.due - d : h \in {k \in handlers : k.fn = "login"},
                           d \in {SlowDelay, SuccessDelay}}

Next ==
  \/ \E email \in TypedEmails, password \in TypedPasswords :
       AuthFormSubmit(email, password)
  \/ \E code \in FullCodes : TwoFactorSubmit(code)
  \/ BackToLogin
  \/ SignOut
  \/ \E c \in Callers, email \in LoginEmails, password \in Passwords :
       CallLogin(c, email, password)
  \/ \E c \in Callers, code \in Codes : \E tempToken \in TokensOf(c) :
       CallVerify2FA(c, tempToken, code)
  \/ \E h \in handlers : HandlerReturn(h)
  \/ \E c \in Clients : RequestTimeout(c)
  \/ \E t \in AdvanceTargets : Advance(t)

\* The page and a direct caller, side by side, on the mock service.
Spec == Init /\ [][Next]_vars

\* ---------------------------------------------- the page on the service
\* The page alone on the mock service.  Handlers wake when their delay is
\* over, the axios deadline fires when it is due, and time passes.
NextPage ==
  \/ \E email \in TypedEmails, password \in TypedPasswords :
       AuthFormSubmit(email, password)
  \/ \E code \in FullCodes : TwoFactorSubmit(code)
  \/ BackToLogin
  \/ SignOut
  \/ \E h \in handlers : HandlerReturn(h)
  \/ RequestTimeout(FC)
  \/ \E t \in AdvanceTargets : Advance(t)

SpecPage ==
  /\ Init
  /\ [][NextPage]_vars
  /\ WF_vars(\E h \in handlers : HandlerReturn(h))
  /\ WF_vars(RequestTimeout(FC))
  /\ WF_vars(\E t \in AdvanceTargets : Advance(t))

\* ------------------------------------------------ the service, one caller
\* One caller that makes its calls one after the other, with every input.
NextApi ==
  \/ \E c \in Callers, email \in Emails, password \in Passwords :
       CallLogin(c, email, password)
  \/ \E c \in Callers, code \in Codes : \E tempToken \in TokensOf(c) :
       CallVerify2FA(c, tempToken, code)
  \/ \E h \in handlers : HandlerReturn(h)
  \/ \E c \in Callers : RequestTimeout(c)
  \/ \E t \in AdvanceTargets : Advance(t)

SpecApi == Init /\ [][NextApi]_vars

\* ------------------------------------------- the client without the mock
\* Without the worker the requests go to whatever serves /api.  What
\* apiClient.post can settle with then: any response of the declared types,
\* any error response, any transport error, any other thrown value.
AnyLoginData ==
  { [token |-> t, user |-> [id |-> 1, email |-> "test@example.com"],
     requires2FA |-> r, tempToken |-> tt] :
      t \in {"", "direct-jwt"}, r \in BOOLEAN,
      tt \in {EmptyTempToken, TempToken(1)} }
  \cup
  { [token |-> t, user |-> [id |-> 1, email |-> "test@example.com"],
     requires2FA |-> r] : t \in {"", "direct-jwt"}, r \in BOOLEAN }

AnyVerifyData ==
  { [token |-> "fake-jwt-token-after-2fa",
     user |-> [id |-> 1, email |-> "test@example.com"]] }

ErrorCodes ==
  { "invalid_credentials", "user_not_found", "server_error",
    "invalid_2fa_code", "2fa_expired" }

AnyErrorBody ==
  { ApiErrorBody(e, "from the server") : e \in ErrorCodes }
  \cup { ApiErrorBody("rate_limited", "Too many requests"),
         [message |-> "Bad gateway"],
         [html |-> "<html></html>"] }

AnyErrorStatus == {400, 401, 404, 500, 502}

AnyError ==
  { [isAxiosError |-> TRUE, code |-> c] :
      c \in {"ECONNABORTED", "ERR_NETWORK", "ETIMEDOUT", "ERR_CANCELED"} }
  \cup { [isAxiosError |-> TRUE] }
  \cup { [ isAxiosError |-> TRUE,
           code |-> IF st >= 500 THEN "ERR_BAD_RESPONSE" ELSE "ERR_BAD_REQUEST",
           response |-> [status |-> st, data |-> b] ] :
         st \in AnyErrorStatus, b \in AnyErrorBody }
  \cup { [isAxiosError |-> FALSE, name |-> "TypeError"] }

AnySettled(fn) ==
  { [resolved |-> TRUE, response |-> [status |-> 200, data |-> d]] :
      d \in IF fn = "login" THEN AnyLoginData ELSE AnyVerifyData }
  \cup { [resolved |-> FALSE, error |-> e] : e \in AnyError }

InitClient ==
  /\ InitPage
  /\ mocking = FALSE

\* apiClient.post of the form's pending request settles.
PostSettles(settled) ==
  /\ isPending(FC)
  /\ "settled" \notin DOMAIN mutation[FC]
  /\ settled \in AnySettled(mutation[FC].variables.fn)
  /\ mutation' = [mutation EXCEPT ![FC] =
       [ status |-> "pending", variables |-> @.variables,
         submittedAt |-> @.submittedAt, settled |-> settled ]]
  /\ UNCHANGED <<now, tempTokenStore, handlers, twoFactorState,
                 isFullyAuthenticated, localStorage, requests, mocking>>

\* `login` / `verify2FA` resumes after its await, and the mutation settles.
FunctionResumes ==
  /\ isPending(FC)
  /\ "settled" \in DOMAIN mutation[FC]
  /\ ClientSettle(FC, mutation[FC].settled)
  /\ UNCHANGED <<now, tempTokenStore, handlers, requests, mocking>>

\* The page alone, on a backend that may answer anything.
NextClient ==
  \/ \E email \in TypedEmails, password \in TypedPasswords :
       AuthFormSubmit(email, password)
  \/ \E code \in FullCodes : TwoFactorSubmit(code)
  \/ BackToLogin
  \/ SignOut
  \/ \E settled \in AnySettled("login") \cup AnySettled("verify2FA") :
       PostSettles(settled)
  \/ FunctionResumes

SpecClient == InitClient /\ [][NextClient]_vars

\* ================================================================== claims
Settled(m) == m.status \in {"success", "error"}

Succeeded(m, fn) == m.status = "success" /\ m.variables.fn = fn

\* The failure {status, data: {error}} a call has thrown.
FailedWith(m, status, error) ==
  /\ m.status = "error"
  /\ m.error.status = status
  /\ "error" \in DOMAIN m.error.data
  /\ m.error.data.error = error

\* C1: a PendingSession token is single-use.  For a caller that makes its
\* calls one after the other: a verify with the valid code that directly
\* follows the login that issued the token succeeds, and a verify with the
\* valid code that directly follows a successful verify of the same token
\* fails with 401 `2fa_expired`.
C1_SingleUse ==
  \A c \in Callers :
    LET m == mutation[c]
    IN  ( /\ Settled(m)
          /\ m.variables.fn = "verify2FA"
          /\ m.variables.code = "123456" )
        => /\ ( /\ Succeeded(m.previous, "login")
                /\ m.previous.data.tempToken = m.variables.tempToken )
              => Succeeded(m, "verify2FA")
           /\ ( /\ Succeeded(m.previous, "verify2FA")
                /\ m.previous.variables.code = "123456"
                /\ m.previous.variables.tempToken = m.variables.tempToken )
              => FailedWith(m, 401, "2fa_expired")

\* C1 witness: the second of two verify calls with the same token and the
\* valid code has failed with 401 `2fa_expired` after the first succeeded.
C1_Witness ==
  \E c \in Callers :
    /\ FailedWith(mutation[c], 401, "2fa_expired")
    /\ mutation[c].variables.fn = "verify2FA"
    /\ mutation[c].variables.code = "123456"
    /\ Succeeded(mutation[c].previous, "verify2FA")
    /\ mutation[c].previous.variables.tempToken = mutation[c].variables.tempToken

\* C4: every successful login response carries requires2FA = true, the
\* empty terminal token and a non-empty tempToken that is a key of the
\* pending-session store; a login with the valid email and the correct
\* password always is such a success.
C4_LoginSuccessShape ==
  \A c \in Callers :
    LET m == mutation[c]
    IN  /\ Succeeded(m, "login")
           => /\ DOMAIN m.data = {"token", "user", "requires2FA", "tempToken"}
              /\ m.data.requires2FA = TRUE
              /\ m.data.token = ""
              /\ m.data.tempToken # EmptyTempToken
              /\ StoreHas(tempTokenStore, m.data.tempToken)
              /\ tempTokenStore[m.data.tempToken].email = m.variables.email
        /\ ( /\ Settled(m)
             /\ m.variables = LoginRequest("test@example.com", "password123") )
           => Succeeded(m, "login")

\* C4 witness: a login with the valid email and the correct password has
\* returned its response.
C4_Witness ==
  \E c \in Callers :
    /\ Succeeded(mutation[c], "login")
    /\ mutation[c].variables = LoginRequest("test@example.com", "password123")
    /\ StoreHas(tempTokenStore, mutation[c].data.tempToken)

\* The outcome a caller sees: 200 "success", or the status and error code of
\* the failure.
OutcomeOf(m) ==
  IF m.status = "success" THEN <<200, "success">>
  ELSE IF "error" \in DOMAIN m.error.data
    THEN <<m.error.status, m.error.data.error>>
  ELSE <<m.error.status, "">>

\* The ordered login table of the specification, first match wins.
LoginTable(email, password) ==
  IF email = "slow@example.com" THEN <<200, "success">>
  ELSE IF email = "timeout@example.com" THEN <<0, "timeout_error">>
  ELSE IF email = "offline@example.com" THEN <<0, "network_error">>
  ELSE IF email = "error@example.com" THEN <<500, "server_error">>
  ELSE IF email = "notfound@example.com" THEN <<404, "user_not_found">>
  ELSE IF email = "test@example.com" /\ password # "password123"
    THEN <<401, "invalid_credentials">>
  ELSE IF email = "test@example.com" THEN <<200, "success">>
  ELSE <<404, "user_not_found">>

\* C5: for every (email, password) the outcome of login is the one of the
\* first matching row of the ordered table; the timeout email gives no
\* response before the client deadline (the handler sleeps beyond the
\* deadline and the caller is told of the expiry), the offline email a
\* failure without status.
C5_LoginTable ==
  /\ \A c \in Callers :
       LET m == mutation[c]
       IN  (Settled(m) /\ m.variables.fn = "login")
           => OutcomeOf(m) = LoginTable(m.variables.email, m.variables.password)
  /\ \A h \in handlers :
       (h.fn = "login" /\ h.email = "timeout@example.com")
         => /\ h.due - loginDelay(h.branch) + AxiosTimeout < h.due
            /\ h.live => isPending(h.client)

\* C5 witness: a login with the slow email and a wrong password has
\* succeeded.
C5_Witness ==
  \E c \in Callers :
    /\ Succeeded(mutation[c], "login")
    /\ mutation[c].variables = LoginRequest("slow@example.com", "wrongpassword")

\* The ordered verify rules of the specification.
VerifyTable(tokenInStore, code) ==
  IF code = "999999" THEN <<0, "timeout_error">>
  ELSE IF ~tokenInStore THEN <<401, "2fa_expired">>
  ELSE IF code = "000000" THEN <<401, "2fa_expired">>
  ELSE IF code # "123456" THEN <<401, "invalid_2fa_code">>
  ELSE <<200, "success">>

\* C6: when a verify call of a sequential caller settles, its outcome is the
\* one the ordered rules give for its code and for whether its token is in
\* the store.
C6_VerifyTable ==
  [][ \A c \in Callers :
        ( /\ isPending(c)
          /\ mutation[c].variables.fn = "verify2FA"
          /\ ~isPending(c)' )
        => OutcomeOf(mutation'[c]) =
             VerifyTable(StoreHas(tempTokenStore, mutation[c].variables.tempToken),
                         mutation[c].variables.code) ]_vars

\* C6 witness: a verify with a token that is not in the store and an invalid
\* code has failed with 401 `2fa_expired`.
C6_Witness ==
  \E c \in Callers :
    /\ FailedWith(mutation[c], 401, "2fa_expired")
    /\ mutation[c].variables = VerifyRequest(UnknownToken, "111111")

\* C7: a successful verify has deleted the PendingSession of its token and
\* returns the access token 'fake-jwt-token-after-2fa' with the email of the
\* login that created the PendingSession.
C7_VerifiedSession ==
  \A c \in Callers :
    LET m == mutation[c]
    IN  Succeeded(m, "verify2FA")
        => /\ ~StoreHas(tempTokenStore, m.variables.tempToken)
           /\ m.data.token = "fake-jwt-token-after-2fa"
           /\ ( /\ Succeeded(m.previous, "login")
                /\ m.previous.data.tempToken = m.variables.tempToken )
              => m.data.user.email = m.previous.variables.email

\* C7 witness: a verify has succeeded with the token a login with the slow
\* email was given.
C7_Witness ==
  \E c \in Callers :
    /\ Succeeded(mutation[c], "verify2FA")
    /\ Succeeded(mutation[c].previous, "login")
    /\ mutation[c].previous.variables.email = "slow@example.com"
    /\ mutation[c].previous.data.tempToken = mutation[c].variables.tempToken

\* ------------------------------------------- claims on the client alone
\* The form's call fails in this step: `login` / `verify2FA` has caught the
\* error apiClient.post rejected with and throws.
FormCallFails ==
  /\ isPending(FC)
  /\ "settled" \in DOMAIN mutation[FC]
  /\ ~mutation[FC].settled.resolved
  /\ mutation'[FC].status = "error"

Caught == mutation[FC].settled.error

\* A transport failure: no HTTP response was received.
NoResponse(error) == error.isAxiosError /\ "response" \notin DOMAIN error

\* A response whose body carries one of the five error codes.
Recognised(error) ==
  /\ error.isAxiosError
  /\ "response" \in DOMAIN error
  /\ "error" \in DOMAIN error.response.data
  /\ error.response.data.error \in ErrorCodes

\* C2: the Flow Controller becomes Authenticated only when a verify call
\* succeeds (in handle2FASuccess), whatever login response is delivered to
\* handleLoginSuccess.
C2_OnlyViaVerify ==
  [][ (~isFullyAuthenticated /\ isFullyAuthenticated')
      => /\ isPending(FC)
         /\ mutation[FC].variables.fn = "verify2FA"
         /\ mutation[FC].settled.resolved ]_vars

\* C3: a login or verify request of the form that ends in any failure leaves
\* the Flow Controller on the screen the request was submitted from, with
\* the pending token it held and the stored token unchanged, and the form
\* is no longer pending, so that the user can submit again.
C3_FailureKeepsState ==
  [][ FormCallFails
      => /\ UNCHANGED <<twoFactorState, isFullyAuthenticated, localStorage>>
         /\ Screen' = IF mutation[FC].variables.fn = "login"
                        THEN "AwaitingCredentials" ELSE "AwaitingCode"
         /\ mutation[FC].variables.fn = "verify2FA"
              => twoFactorState'.tempToken = mutation[FC].variables.tempToken
         /\ ~isPending(FC)' ]_vars

\* C3 witness: a verify request has failed with unknown_error and the page
\* still awaits the code.
C3_Witness ==
  /\ FailedWith(mutation[FC], 0, "unknown_error")
  /\ mutation[FC].variables.fn = "verify2FA"
  /\ Screen = "AwaitingCode"

\* C8: a failure of login or verify without an HTTP response is surfaced as
\* timeout_error when it is the deadline abort (ECONNABORTED) and as
\* network_error otherwise, both with status 0; the reply of the login
\* handler for the offline email is surfaced as network_error, status 0.
C8_NoResponse ==
  /\ \A password \in Passwords :
       LET h == [branch |-> loginBranch("offline@example.com", password)]
           result == login(axiosSettle(loginReply(h, 0)))
       IN  /\ ~result.ok
           /\ result.error.status = 0
           /\ result.error.data.error = "network_error"
  /\ [][ (FormCallFails /\ NoResponse(Caught))
         => FailedWith(mutation'[FC], 0,
                       IF "code" \in DOMAIN Caught /\ Caught.code = "ECONNABORTED"
                         THEN "timeout_error" ELSE "network_error") ]_vars

\* C8 witness: a verify request that was rejected without a response and
\* not by the deadline has been surfaced as network_error.
C8_Witness ==
  /\ FailedWith(mutation[FC], 0, "network_error")
  /\ mutation[FC].variables.fn = "verify2FA"

\* C9: a response whose body carries one of the five error codes is
\* surfaced with exactly that code and the HTTP status of the response, by
\* login and by verify.
C9_PassThrough ==
  [][ (FormCallFails /\ Recognised(Caught))
      => FailedWith(mutation'[FC], Caught.response.status,
                    Caught.response.data.error) ]_vars

\* C9 witness: a verify request answered 400 with the code 2fa_expired has
\* been surfaced with that status and code.
C9_Witness ==
  /\ FailedWith(mutation[FC], 400, "2fa_expired")
  /\ mutation[FC].variables.fn = "verify2FA"

\* The error codes a FailureOutcome may carry.
FailureCodes == ErrorCodes \cup {"timeout_error", "network_error", "unknown_error"}

\* C10: a failure that is neither a transport failure without response nor a
\* response with one of the five error codes is surfaced as unknown_error
\* with status 0, and every surfaced failure carries a code of the fixed set.
C10_UnknownError ==
  [][ FormCallFails
      => /\ "error" \in DOMAIN mutation'[FC].error.data
         /\ mutation'[FC].error.data.error \in FailureCodes
         /\ (~NoResponse(Caught) /\ ~Recognised(Caught))
              => FailedWith(mutation'[FC], 0, "unknown_error") ]_vars

\* ---------------------------------------- claims on the composed system
\* What the user sees of the flow: the screen, the pending token the page
\* holds, the stored token and the failure the form displays.
FlowView == <<twoFactorState, isFullyAuthenticated, localStorage, mutation[FC]>>

\* The response of a handler of the form's request that slept beyond the
\* client deadline is produced in this step.
LateResponse(h) ==
  /\ h \in handlers
  /\ h.client = FC
  /\ h.branch = "timeout"
  /\ h.due <= now
  /\ h \notin handlers'

\* C11: when the client deadline fires for a request of the form, the form
\* shows timeout_error; the response the service produces afterwards changes
\* neither the screen, nor the pending token, nor the stored token, nor the
\* displayed failure.
C11_LateResponseIgnored ==
  [][ /\ ( /\ isPending(FC)
           /\ mutation[FC].submittedAt + AxiosTimeout <= now
           /\ ~isPending(FC)' )
         => FailedWith(mutation'[FC], 0, "timeout_error")
      /\ \A h \in handlers :
           LateResponse(h)
             => /\ h.due - TimeoutDelay + AxiosTimeout < now
                /\ FlowView' = FlowView ]_vars

\* C11 witness: the form shows timeout_error for a verify with the timeout
\* code, and the late response of its handler has been produced.
C11_Witness ==
  /\ FailedWith(mutation[FC], 0, "timeout_error")
  /\ mutation[FC].variables.fn = "verify2FA"
  /\ now >= TimeoutDelay
  /\ \A h \in handlers : h.client # FC

\* The requests that reach the service in this step: the handler
\* invocations that start.
Arrivals == {h \in handlers' : h.live /\ h \notin handlers}

\* Client c submits in this step.
Submits(c) == ~isPending(c) /\ isPending(c)'

\* C12: the client never retries.  A request reaches the service only in a
\* step in which a client submits, and then exactly one, for that client;
\* the step in which a request ends, in success or in any failure, starts
\* none.
C12_NoRetry ==
  [][ /\ \A c \in Clients :
           Submits(c)
             => /\ Cardinality(Arrivals) = 1
                /\ \A h \in Arrivals : h.client = c /\ h.fn = mutation'[c].variables.fn
                /\ requests' = requests + 1
      /\ (\A c \in Clients : ~Submits(c))
           => /\ Arrivals = {}
              /\ requests' = requests ]_vars

\* C12 witness: the form's single submission has ended in 500 server_error;
\* one request was made and none is in flight.
C12_Witness ==
  /\ FailedWith(mutation[FC], 500, "server_error")
  /\ requests = 1
  /\ handlers = {}

\* The requests of the flow that are in flight among the handlers H.
InFlight(H) == {h \in H : h.client = FC /\ h.live}

\* C13: at most one login or verify request of the flow is in flight, and
\* one is exactly while the form is pending; while it is pending no second
\* request starts and the screen, the pending token, the stored token and
\* the form do not change; the form leaves the pending state only by the
\* end of that request (its response or its deadline), never by a submit or
\* the back action.
C13_SingleInFlight ==
  [][ /\ Cardinality(InFlight(handlers')) <= 1
      /\ isPending(FC)' <=> InFlight(handlers') # {}
      /\ isPending(FC)
           => /\ isPending(FC)'
                   => /\ FlowView' = FlowView
                      /\ InFlight(handlers') = InFlight(handlers)
              /\ ~isPending(FC)'
                   => InFlight(handlers) \cap handlers' = {} ]_vars

\* C13 witness: a verify request of the form is in flight on the code
\* screen, where the back button is.
C13_Witness ==
  /\ isPending(FC)
  /\ Screen = "AwaitingCode"
  /\ Cardinality(InFlight(handlers)) = 1

\* The message table of the specification.
MessageTable(code) ==
  CASE code = "invalid_credentials" -> "Incorrect email or password."
    [] code = "user_not_found" -> "User not found."
    [] code = "server_error" -> "Server error. Please try again later."
    [] code = "invalid_2fa_code" -> "Invalid verification code. Please try again."
    [] code = "2fa_expired" -> "Verification session expired. Please login again."
    [] code = "timeout_error" -> "Request timed out. Please try again."
    [] code = "network_error" -> "Connection problem. Please check your network."

\* C14: for every failure the page on the mock service can run into, the
\* message the form shows is the string of the message table for the error
\* code of the failure; the login form shows the codes invalid_credentials,
\* user_not_found, server_error, timeout_error, network_error and the code
\* form invalid_2fa_code, 2fa_expired, timeout_error, network_error.
C14_MessageTable ==
  mutation[FC].status = "error"
    => /\ errorOf(mutation[FC].error.data) \in
            IF mutation[FC].variables.fn = "login"
              THEN { "invalid_credentials", "user_not_found", "server_error",
                     "timeout_error", "network_error" }
              ELSE { "invalid_2fa_code", "2fa_expired",
                     "timeout_error", "network_error" }
       /\ apiError = MessageTable(errorOf(mutation[FC].error.data))

\* C14 witness: the code form shows the message of 2fa_expired.
C14_Witness ==
  /\ FailedWith(mutation[FC], 401, "2fa_expired")
  /\ mutation[FC].variables.fn = "verify2FA"
  /\ apiError = "Verification session expired. Please login again."

\* C15: scenario A.  With every request answered, the login of
\* test@example.com / password123 that the form has submitted leads to the
\* code screen with the issued token, which is in the store; and the verify
\* of code 123456 that the form has submitted there leads to Authenticated
\* with the stored access token 'fake-jwt-token-after-2fa'.
C15_ScenarioA ==
  /\ ( /\ isPending(FC)
       /\ mutation[FC].variables = LoginRequest("test@example.com", "password123") )
     ~> ( /\ Screen = "AwaitingCode"
          /\ twoFactorState.userEmail = "test@example.com"
          /\ StoreHas(tempTokenStore, twoFactorState.tempToken) )
  /\ ( /\ isPending(FC)
       /\ mutation[FC].variables.fn = "verify2FA"
       /\ mutation[FC].variables.code = "123456" )
     ~> ( /\ Screen = "Authenticated"
          /\ localStorage["auth_token"] = "fake-jwt-token-after-2fa" )

\* C15 witness: the run of scenario A, from the empty store and with its two
\* requests only, has ended in Authenticated.
C15_Witness ==
  /\ Screen = "Authenticated"
  /\ twoFactorState.userEmail = "test@example.com"
  /\ localStorage["auth_token"] = "fake-jwt-token-after-2fa"
  /\ requests = 2
  /\ now = SuccessDelay + SuccessDelay

\* An email the login form must reject: empty, or not of the form
\* local@domain.tld without blanks.
RejectedEmails == {"", "test@example", "te st@example.com"}

SixDigits(code) ==
  /\ Len(Chars(code)) = 6
  /\ \A i \in 1..6 : Chars(code)[i] \in {"0", "1", "2", "3", "4", "5", "6", "7", "8", "9"}

\* C16: validation errors are rejected before any request is sent.  Every
\* request of the form that reaches the service is a login with a non-empty
\* well-formed email and a non-empty password, or a verify with a code of
\* exactly 6 digits.
C16_ValidationFirst ==
  [][ \A h \in Arrivals :
        h.client = FC
          => LET v == mutation'[FC].variables
             IN  /\ v.fn = "login"
                      => /\ v.email \notin RejectedEmails
                         /\ v.password # ""
                         /\ h.email = v.email
                 /\ v.fn = "verify2FA" => SixDigits(v.code) ]_vars

\* C16 witness: a verify request of the form, with the six digits left of
\* a pasted "1234567", is at the service.
C16_Witness ==
  /\ isPending(FC)
  /\ mutation[FC].variables.fn = "verify2FA"
  /\ mutation[FC].variables.code = fullCodeOf("1234567")
  /\ InFlight(handlers) # {}

\* C17: the page shows the login form again without a request having ended
\* only by the back action, taken on the code screen.  The step discards the
\* pending token the page holds and leaves the store and the running
\* handlers as they are: a PendingSession that was in the store for the
\* token is still there, unaltered, and a verify with that token and the
\* valid code sent then takes the success branch.
C17_BackAction ==
  [][ (Screen = "AwaitingCode" /\ Screen' = "AwaitingCredentials")
      => /\ ~isPending(FC)
         /\ twoFactorState' = null
         /\ ~isFullyAuthenticated'
         /\ UNCHANGED <<tempTokenStore, handlers, localStorage>>
         /\ StoreHas(tempTokenStore, twoFactorState.tempToken)
              => verifyBranch(tempTokenStore', twoFactorState.tempToken, "123456")
                   = "success" ]_vars

\* C17 witness: the page logged in and went back (two requests were made in
\* all, the login of the page and one verify of the direct caller), and the
\* caller's verify with the abandoned token and the valid code succeeded.
C17_Witness ==
  /\ Screen = "AwaitingCredentials"
  /\ mutation[FC] = IdleMutation
  /\ requests = 2
  /\ \E c \in Callers :
       /\ Succeeded(mutation[c], "verify2FA")
       /\ mutation[c].previous = IdleMutation
       /\ mutation[c].variables.code = "123456"

\* The handler h finishes in this step.
Returns(h) == h \in handlers /\ h.due <= now /\ h \notin handlers'

\* C18: a PendingSession stays in the store, unaltered, until a verify that
\* took the success branch for its token finishes (and removes it) or a
\* successful login finishes that writes the same token key.  A verify that
\* fails (expired code, invalid code, unknown token) or sleeps through the
\* deadline (timeout code) leaves the store as it is, so the valid code
\* still takes the success branch for the token afterwards.
C18_SessionStaysLive ==
  [][ /\ \A token \in DOMAIN tempTokenStore :
           ( \/ ~StoreHas(tempTokenStore', token)
             \/ tempTokenStore'[token] # tempTokenStore[token] )
           => \E h \in handlers :
                /\ Returns(h)
                /\ \/ /\ h.fn = "verify2FA"
                      /\ h.branch = "success"
                      /\ h.tempToken = token
                      /\ ~StoreHas(tempTokenStore', token)
                   \/ /\ h.fn = "login"
                      /\ h.branch \in {"slow", "success"}
                      /\ token = TempToken(now)
                      /\ tempTokenStore'[token] = [email |-> h.email, createdAt |-> now]
      /\ \A h \in handlers :
           (Returns(h) /\ h.fn = "verify2FA" /\ h.branch # "success")
             => /\ tempTokenStore' = tempTokenStore
                /\ \A token \in DOMAIN tempTokenStore :
                     verifyBranch(tempTokenStore', token, "123456") = "success" ]_vars

\* C18 witness: a verify with the valid code has succeeded right after a
\* verify of the same token had failed with invalid_2fa_code.
C18_Witness ==
  \E c \in Callers :
    /\ Succeeded(mutation[c], "verify2FA")
    /\ FailedWith(mutation[c].previous, 401, "invalid_2fa_code")
    /\ mutation[c].previous.variables.tempToken = mutation[c].variables.tempToken

\* C19: a PendingSession is created only by a successful login.  The store
\* gets a new key only in the step in which a login handler on a success
\* branch finishes; the step in which a login ends in a failure or in no
\* response (timeout, offline, server-error, not-found, wrong-password and
\* unknown emails; the client deadline) leaves the store exactly as it was.
C19_OnlyLoginCreates ==
  [][ /\ (DOMAIN tempTokenStore' \ DOMAIN tempTokenStore) # {}
           => \E h \in handlers :
                /\ Returns(h)
                /\ h.fn = "login"
                /\ h.branch \in {"slow", "success"}
                /\ DOMAIN tempTokenStore' \ DOMAIN tempTokenStore = {TempToken(now)}
      /\ \A h \in handlers :
           ( /\ Returns(h)
             /\ h.fn = "login"
             /\ h.email \notin {"slow@example.com", "test@example.com"} )
           => tempTokenStore' = tempTokenStore
      /\ \A c \in Clients :
           ( /\ isPending(c)
             /\ mutation[c].variables.fn = "login"
             /\ mutation'[c].status = "error" )
           => tempTokenStore' = tempTokenStore ]_vars

\* C19 witness: the login form has failed with invalid_credentials while
\* the store holds a PendingSession.
C19_Witness ==
  /\ FailedWith(mutation[FC], 401, "invalid_credentials")
  /\ DOMAIN tempTokenStore # {}

\* C20: at most one successful verification consumes a token.  The page and
\* the direct caller never both have a successful verify of the same token
\* (the page is Authenticated by the token it holds, the caller's last call
\* is a successful verify of that token).
C20_AtMostOneSuccess ==
  \A c \in Callers :
    ~ ( /\ isFullyAuthenticated
        /\ twoFactorState # null
        /\ Succeeded(mutation[c], "verify2FA")
        /\ mutation[c].variables.code = "123456"
        /\ mutation[c].variables.tempToken = twoFactorState.tempToken )

\* C21: PendingSessions of concurrent logins are isolated.  The token the
\* page holds from its login is not the token of a successful login of the
\* direct caller, and the PendingSession the store keeps for it records the
\* email of the page's login, which is the email a verify would return.
C21_Isolated ==
  twoFactorState # null
    => /\ \A c \in Callers :
            Succeeded(mutation[c], "login")
              => mutation[c].data.tempToken # twoFactorState.tempToken
       /\ StoreHas(tempTokenStore, twoFactorState.tempToken)
            => tempTokenStore[twoFactorState.tempToken].email
                 = twoFactorState.userEmail

\* C22: every request the form has submitted resolves: the form is never
\* pending beyond the 10000 ms deadline of its request, and a pending form
\* always eventually is not pending any more, so that it can be submitted
\* again.
C22_EventuallyResolves ==
  /\ [](isPending(FC) => now <= mutation[FC].submittedAt + AxiosTimeout)
  /\ isPending(FC) ~> ~isPending(FC)

\* C22 witness: a verify request of the form was resolved by its deadline,
\* as timeout_error, and the form can be submitted again.
C22_Witness ==
  /\ FailedWith(mutation[FC], 0, "timeout_error")
  /\ mutation[FC].variables.fn = "verify2FA"
  /\ ~isPending(FC)
  /\ now = SuccessDelay + AxiosTimeout

\* C23: the user of a VerifiedSession is the user of the login that issued
\* the token.  For a caller that makes its calls one after the other: the
\* user (id and email) a successful verify returns is the user the
\* successful login right before it returned with the token.
C23_SameUser ==
  \A c \in Callers :
    LET m == mutation[c]
    IN  ( /\ Succeeded(m, "verify2FA")
          /\ Succeeded(m.previous, "login")
          /\ m.previous.data.tempToken = m.variables.tempToken )
        => /\ m.data.user.email = m.previous.data.user.email
           /\ m.data.user.id = m.previous.data.user.id

\* C24: whenever the page is Authenticated the stored auth token is the
\* access token of the successful verify, 'fake-jwt-token-after-2fa'; and
\* isAuthenticated() is true only with that token stored, never by a login
\* alone, whose step stores the empty token.
C24_StoredToken ==
  /\ Screen = "Authenticated"
       => /\ "auth_token" \in DOMAIN localStorage
          /\ localStorage["auth_token"] = "fake-jwt-token-after-2fa"
  /\ isAuthenticated(localStorage)
       => localStorage["auth_token"] = "fake-jwt-token-after-2fa"
  /\ (Screen = "AwaitingCode" /\ requests = 1)
       => ~isAuthenticated(localStorage)

\* C25: the page leaves Authenticated only by the sign-out, which shows the
\* login form, clears the pending token the page holds and leaves the stored
\* auth token, the store of the service and its handlers unchanged, so that
\* isAuthenticated() is what it was; isAuthenticated() turns false only in
\* the step in which a login of the form succeeds and stores the empty
\* token.
C25_SignOut ==
  [][ /\ (Screen = "Authenticated" /\ Screen' # "Authenticated")
           => /\ Screen' = "AwaitingCredentials"
              /\ twoFactorState' = null
              /\ UNCHANGED <<localStorage, tempTokenStore, handlers>>
              /\ isAuthenticated(localStorage') = isAuthenticated(localStorage)
      /\ (isAuthenticated(localStorage) /\ ~isAuthenticated(localStorage'))
           => /\ isPending(FC)
              /\ mutation[FC].variables.fn = "login"
              /\ ~isPending(FC)'
              /\ localStorage'["auth_token"] = "" ]_vars

\* C25 witness: the user has signed out; the login form is shown, no pending
\* token is held and isAuthenticated() is still true.
C25_Witness ==
  /\ Screen = "AwaitingCredentials"
  /\ twoFactorState = null
  /\ isAuthenticated(localStorage)
  /\ ~isPending(FC)

\* C26: with the page as the only client of the service, whenever the page
\* awaits the code the token it holds is not empty and is a key of the store
\* whose PendingSession records the email shown to the user; no verify
\* request of the page finds its token missing, so none of its 2fa_expired
\* outcomes is the token-not-found one.
C26_HeldTokenIsLive ==
  /\ Screen = "AwaitingCode"
       => /\ twoFactorState.tempToken # EmptyTempToken
          /\ StoreHas(tempTokenStore, twoFactorState.tempToken)
          /\ tempTokenStore[twoFactorState.tempToken].email = twoFactorState.userEmail
  /\ \A h \in handlers :
       (h.client = FC /\ h.fn = "verify2FA")
         => /\ h.branch # "noToken"
            /\ h.tokenData # null

\* C26 witness: the page awaits the code after a verify that failed with
\* 2fa_expired for the expired code, its token being in the store.
C26_Witness ==
  /\ Screen = "AwaitingCode"
  /\ FailedWith(mutation[FC], 401, "2fa_expired")
  /\ mutation[FC].variables.code = "000000"
  /\ StoreHas(tempTokenStore, twoFactorState.tempToken)

====
